---- MODULE Spec2Model ----
(***************************************************************************)
(* A model of create_base_map.py: the command-line entry point (prompt,    *)
(* existence check, output directory) and the create_base_map pipeline     *)
(* (load, reproject, padded limits, basemap, ticks, scale bar, arrow,      *)
(* title, save, show), with the file system the program writes to.         *)
(*                                                                         *)
(* Text is a sequence of one-character strings.  os.path is posixpath; on   *)
(* the lines drawn here (no backslash, no colon) ntpath splits names the    *)
(* same way and differs only in joining with a backslash.                  *)
(* Coordinates are exact fixed-point numbers: a model integer v stands for *)
(* v / Unit metres, and every product the code forms with 0.2 or 0.05 and  *)
(* every linspace step is exact on the inputs drawn here.  Floating-point  *)
(* rounding is not modelled.                                               *)
(***************************************************************************)
EXTENDS Integers, Sequences, FiniteSets, TLC

VARIABLES
    entered,        \* the line typed at the prompt (environment)
    pathExists,     \* whether a non-empty cleaned path names an existing file (environment)
    bounds,         \* gdf_wm.total_bounds of the file's geometry, whole metres (environment)
    pc,             \* the next statement of the script
    shapefile_path, \* line 127/130
    shapefile_name, \* line 21
    map_title,      \* line 23
    xlim, ylim,     \* the axes' view limits, <<lower, upper>>
    x_ticks, y_ticks, \* lines 56-57
    axis,           \* tick positions and tick labels installed on the axes
    scalebar,       \* the scale bar's artists, lines 86-100
    layers,         \* what has been drawn on the axes, in drawing order
    trace,          \* the pipeline steps attempted in this run, in order
    dirs, files,    \* the file system: directories and files present
    created, written, \* directories created / files written by this run
    filesAtStart,   \* the files present when this run started
    exitCode,       \* <<status>> once the process has ended, <<>> before
    outcome,        \* how the run ended: "not_found", "fault", "ok"; "running" before
    faultAt         \* <<step>> for the step whose call raised, else <<>>

vars == <<entered, pathExists, bounds, pc, shapefile_path, shapefile_name,
          map_title, xlim, ylim, x_ticks, y_ticks, axis, scalebar, layers,
          trace, dirs, files, created, written, filesAtStart, exitCode, outcome,
          faultAt>>

-----------------------------------------------------------------------------
(* Bounds of the model *)

MaxLen == 3
MaxCoord == 2
GridStep == 5000

Alphabet == {"a", "B", "_", ".", "/", " ", "'"}

Strings == UNION {[1..n -> Alphabet] : n \in 0..MaxLen}

Coords == {k * GridStep : k \in -MaxCoord..MaxCoord}

\* total_bounds is (minx, miny, maxx, maxy): minima never exceed maxima.
Boxes == {b \in [w : Coords, s : Coords, e : Coords, n : Coords] :
            b.w <= b.e /\ b.s <= b.n}

None == <<>>

-----------------------------------------------------------------------------
(* Text: str and os.path *)

Whitespace == {" "}
Quotes == {"\"", "'"}

RECURSIVE lstrip(_, _)
lstrip(s, chars) ==
    IF s # <<>> /\ Head(s) \in chars THEN lstrip(Tail(s), chars) ELSE s

RECURSIVE rstrip(_, _)
rstrip(s, chars) ==
    IF s # <<>> /\ s[Len(s)] \in chars
    THEN rstrip(SubSeq(s, 1, Len(s) - 1), chars) ELSE s

strip(s, chars) == rstrip(lstrip(s, chars), chars)

\* str.rfind, 1-based: the last index of c in s, 0 when absent.
rfind(s, c) ==
    LET I == {i \in 1..Len(s) : s[i] = c}
    IN  IF I = {} THEN 0 ELSE CHOOSE i \in I : \A j \in I : j <= i

basename(p) == SubSeq(p, rfind(p, "/") + 1, Len(p))

\* genericpath._splitext: the extension starts at the last dot of the last
\* path component, unless only dots precede it in that component.
splitext(p) ==
    LET sepIndex == rfind(p, "/")
        dotIndex == rfind(p, ".")
    IN  IF dotIndex > sepIndex
           /\ \E i \in (sepIndex + 1)..(dotIndex - 1) : p[i] # "."
        THEN <<SubSeq(p, 1, dotIndex - 1), SubSeq(p, dotIndex, Len(p))>>
        ELSE <<p, <<>>>>

replace(s, old, new) == [i \in 1..Len(s) |-> IF s[i] = old THEN new ELSE s[i]]

Lower == {"a", "b"}
Upper == {"A", "B"}
upper(c) == IF c = "a" THEN "A" ELSE IF c = "b" THEN "B" ELSE c
lower(c) == IF c = "A" THEN "a" ELSE IF c = "B" THEN "b" ELSE c

\* str.title: a cased character is upper-cased when the character before it
\* is uncased (or there is none) and lower-cased otherwise.
RECURSIVE title_from(_, _)
title_from(s, previous_is_cased) ==
    IF s = <<>> THEN <<>>
    ELSE LET c == Head(s)
         IN  IF c \in Lower \cup Upper
             THEN <<IF previous_is_cased THEN lower(c) ELSE upper(c)>>
                  \o title_from(Tail(s), TRUE)
             ELSE <<c>> \o title_from(Tail(s), FALSE)

\* A variant that upper-cases the first character of each space-separated
\* word and keeps the rest of the word.
title_keep_case(s) ==
    [i \in 1..Len(s) |->
        IF i = 1 \/ s[i - 1] = " " THEN upper(s[i]) ELSE s[i]]

title(s) == title_from(s, FALSE)

Suffix == <<"_", "b", "a", "s", "e", "m", "a", "p", ".", "p", "n", "g">>

\* os.path.join(a, b) for a b that holds no separator and an a that does not
\* end in one.
join(a, b) == a \o <<"/">> \o b

\* The literal of line 138; under posixpath it is a single path component.
OutputDir ==
    <<"C", ":", "\\", "U", "s", "e", "r", "s", "\\", "N", "a", "g", "a",
      "i", "L", "a", "b", "\\", "G", "e", "m", "i", "n", "i", "_", "c",
      "o", "n", "v", "e", "r", "s", "a", "t", "i", "o", "n", "\\", "C",
      "r", "e", "a", "t", "e", "_", "B", "a", "s", "e", "_", "M", "a", "p",
      "s", "\\", "o", "u", "t", "p", "u", "t", "_", "b", "a", "s", "e",
      "_", "m", "a", "p", "s">>

\* A variant that names the file after the humanized name.
OutputPath_Humanized(output_dir, name) ==
    join(output_dir, replace(name, "_", " ") \o Suffix)

\* Line 118.
OutputPath(output_dir, name) == join(output_dir, name \o Suffix)

-----------------------------------------------------------------------------
(* Layout arithmetic of create_base_map *)

\* The fractions 0.2 (lines 42-43) and 0.05 (line 83).
PadNum == 1
PadDen == 5
BarNum == 1
BarDen == 20

\* The fixed-point resolution: a model integer v is v / Unit metres.
Unit == PadDen * BarDen

NumTicks == 6
scalebar_length == 15000
ScalebarInset == 5000
TextRise == 500
CapHalf == 300

Abs(v) == IF v < 0 THEN -v ELSE v

West == bounds.w * Unit
South == bounds.s * Unit
East == bounds.e * Unit
North == bounds.n * Unit

x_range == East - West
y_range == North - South
x_padding == (x_range * PadNum) \div PadDen
y_padding == (y_range * PadNum) \div PadDen

\* Axes.set_xlim / set_ylim: the view limits become the arguments, except that
\* identical arguments are expanded by the locator's nonsingular (5 % of their
\* magnitude, or +-0.05 around zero).
set_lim(lo, hi) ==
    IF lo # hi THEN <<lo, hi>>
    ELSE IF lo = 0 THEN <<-(Unit \div 20), Unit \div 20>>
    ELSE <<lo - (Abs(lo) \div 20), hi + (Abs(hi) \div 20)>>

\* A variant with endpoint=False: num steps, the stop value left out.
linspace_open(start, stop, num) ==
    LET step == (stop - start) \div num
    IN  [i \in 1..num |-> start + (i - 1) * step]

\* np.linspace(start, stop, num) with endpoint=True.
linspace(start, stop, num) ==
    LET step == (stop - start) \div (num - 1)
    IN  [i \in 1..num |-> IF i = num THEN stop ELSE start + (i - 1) * step]

\* Transformer.transform from EPSG:3857 to EPSG:4326 followed by the f-string
\* of lines 66-67: the label text of the point (x, y), kept as a term.
lon_label(x, y) == <<"lon", x, y, ".2f", "E">>
lat_label(x, y) == <<"lat", x, y, ".2f", "N">>

\* A variant that ends the bar on the right limit.
scalebar_x_start_flush == East + x_padding - scalebar_length * Unit

scalebar_x_start ==
    East + x_padding - scalebar_length * Unit - ScalebarInset * Unit
scalebar_y == South - y_padding + (y_range * BarNum) \div BarDen

\* The artists of lines 86-100: each line is <<x0, y0, x1, y1>>.
ScaleBarArtists ==
    [bar  |-> <<scalebar_x_start, scalebar_y,
                scalebar_x_start + scalebar_length * Unit, scalebar_y>>,
     text |-> <<scalebar_x_start + (scalebar_length * Unit) \div 2,
                scalebar_y + TextRise * Unit>>,
     cap1 |-> <<scalebar_x_start, scalebar_y - CapHalf * Unit,
                scalebar_x_start, scalebar_y + CapHalf * Unit>>,
     cap2 |-> <<scalebar_x_start + scalebar_length * Unit,
                scalebar_y - CapHalf * Unit,
                scalebar_x_start + scalebar_length * Unit,
                scalebar_y + CapHalf * Unit>>]

-----------------------------------------------------------------------------
(* The script *)

\* A variant that displays the figure before it is saved.
NextPc_ShowFirst(p) ==
    CASE p = "input"         -> "exists"
      [] p = "exists"        -> "main_makedirs"
      [] p = "main_makedirs" -> "read_file"
      [] p = "read_file"     -> "names"
      [] p = "names"         -> "reproject"
      [] p = "reproject"     -> "subplots"
      [] p = "subplots"      -> "plot"
      [] p = "plot"          -> "limits"
      [] p = "limits"        -> "basemap"
      [] p = "basemap"       -> "ticks"
      [] p = "ticks"         -> "grid"
      [] p = "grid"          -> "legend"
      [] p = "legend"        -> "scalebar"
      [] p = "scalebar"      -> "arrow"
      [] p = "arrow"         -> "title"
      [] p = "title"         -> "show"
      [] p = "show"          -> "makedirs"
      [] p = "makedirs"      -> "savefig"
      [] p = "savefig"       -> "end"

\* The statements in program order: __main__ (lines 124-147) calls
\* create_base_map (lines 9-122) last.
NextPc(p) ==
    CASE p = "input"         -> "exists"
      [] p = "exists"        -> "main_makedirs"
      [] p = "main_makedirs" -> "read_file"
      [] p = "read_file"     -> "names"
      [] p = "names"         -> "reproject"
      [] p = "reproject"     -> "subplots"
      [] p = "subplots"      -> "plot"
      [] p = "plot"          -> "limits"
      [] p = "limits"        -> "basemap"
      [] p = "basemap"       -> "ticks"
      [] p = "ticks"         -> "grid"
      [] p = "grid"          -> "legend"
      [] p = "legend"        -> "scalebar"
      [] p = "scalebar"      -> "arrow"
      [] p = "arrow"         -> "title"
      [] p = "title"         -> "makedirs"
      [] p = "makedirs"      -> "savefig"
      [] p = "savefig"       -> "show"
      [] p = "show"          -> "end"

\* The calls that reach outside the process and may raise.
Fallible == {"input", "main_makedirs", "read_file", "reproject", "basemap",
             "makedirs", "show"}

FewBoxes == {[w |-> 0, s |-> 0, e |-> GridStep, n |-> GridStep]}
FewPaths == {<<"a">>, <<"a", "_", "B">>}

Fresh ==
    /\ pc = "input"
    /\ shapefile_path = None
    /\ shapefile_name = None
    /\ map_title = None
    /\ xlim = None
    /\ ylim = None
    /\ x_ticks = None
    /\ y_ticks = None
    /\ axis = None
    /\ scalebar = None
    /\ layers = <<>>
    /\ trace = <<>>
    /\ created = {}
    /\ written = {}
    /\ exitCode = None
    /\ outcome = "running"
    /\ faultAt = None

Init ==
    /\ entered \in Strings
    /\ pathExists \in BOOLEAN
    /\ bounds \in FewBoxes
    /\ dirs = {}
    /\ files = {}
    /\ filesAtStart = {}
    /\ Fresh

InitLayout ==
    /\ entered \in FewPaths
    /\ pathExists \in BOOLEAN
    /\ bounds \in Boxes
    /\ dirs = {}
    /\ files = {}
    /\ filesAtStart = {}
    /\ Fresh

env == <<entered, pathExists, bounds>>
names == <<shapefile_path, shapefile_name, map_title>>
figure == <<xlim, ylim, x_ticks, y_ticks, axis, scalebar, layers>>
fs == <<dirs, files, created, written, filesAtStart>>
ending == <<exitCode, outcome, faultAt>>

\* One statement runs: it is recorded and control moves to the next one.
Advance(step) ==
    /\ pc = step
    /\ pc' = NextPc(step)
    /\ trace' = Append(trace, step)

\* os.path.exists: the empty path never exists.
exists(p) == p # <<>> /\ pathExists

\* Lines 126-130: read the line, strip whitespace, then surrounding quotes.
Input ==
    /\ Advance("input")
    /\ shapefile_path' = strip(strip(entered, Whitespace), Quotes)
    /\ UNCHANGED <<env, shapefile_name, map_title, figure, fs, ending>>

\* A variant that reports the missing file and carries on.
CheckExists_NoExit ==
    /\ pc = "exists"
    /\ trace' = Append(trace, "exists")
    /\ pc' = NextPc("exists")
    /\ UNCHANGED <<env, names, figure, fs, ending>>

\* Lines 133-135: a missing file ends the process with status 1.
CheckExists ==
    /\ pc = "exists"
    /\ trace' = Append(trace, "exists")
    /\ IF exists(shapefile_path)
       THEN /\ pc' = NextPc("exists")
            /\ UNCHANGED ending
       ELSE /\ pc' = "exited"
            /\ exitCode' = <<1>>
            /\ outcome' = "not_found"
            /\ UNCHANGED faultAt
    /\ UNCHANGED <<env, names, figure, fs>>

\* os.makedirs(d, exist_ok): an existing directory raises FileExistsError
\* unless exist_ok is set.
makedirs_raises(d, exist_ok) == d \in dirs /\ ~exist_ok

\* The os.makedirs(output_dir, exist_ok=True) of lines 141 and 115, run as
\* statement step: an existing directory is left alone.
makedirs(step, d) ==
    /\ pc = step
    /\ trace' = Append(trace, step)
    /\ IF makedirs_raises(d, TRUE)
       THEN /\ pc' = "exited"
            /\ exitCode' = <<1>>
            /\ outcome' = "fault"
            /\ faultAt' = <<step>>
            /\ UNCHANGED <<dirs, created>>
       ELSE /\ pc' = NextPc(step)
            /\ dirs' = dirs \cup {d}
            /\ created' = created \cup ({d} \ dirs)
            /\ UNCHANGED ending
    /\ UNCHANGED <<files, written, filesAtStart>>

\* Line 141.
MainMakedirs ==
    /\ makedirs("main_makedirs", OutputDir)
    /\ UNCHANGED <<env, names, figure>>

\* Line 18.
ReadFile ==
    /\ Advance("read_file")
    /\ UNCHANGED <<env, names, figure, fs, ending>>

\* Lines 21-23.
ComputeNames ==
    /\ Advance("names")
    /\ shapefile_name' = splitext(basename(shapefile_path))[1]
    /\ map_title' = title(replace(shapefile_name', "_", " "))
    /\ UNCHANGED <<env, shapefile_path, figure, fs, ending>>

\* Line 26.
Reproject ==
    /\ Advance("reproject")
    /\ UNCHANGED <<env, names, figure, fs, ending>>

\* Line 29.
Subplots ==
    /\ Advance("subplots")
    /\ UNCHANGED <<env, names, figure, fs, ending>>

\* Line 32.
Plot ==
    /\ Advance("plot")
    /\ layers' = Append(layers, "polygon")
    /\ UNCHANGED <<env, names, xlim, ylim, x_ticks, y_ticks, axis, scalebar,
                   fs, ending>>

\* A variant that pads both axes by the x padding.
SetLimits_OnePadding ==
    /\ Advance("limits")
    /\ xlim' = set_lim(West - x_padding, East + x_padding)
    /\ ylim' = set_lim(South - x_padding, North + x_padding)
    /\ UNCHANGED <<env, names, x_ticks, y_ticks, axis, scalebar, layers, fs,
                   ending>>

\* Lines 35-47.
SetLimits ==
    /\ Advance("limits")
    /\ xlim' = set_lim(West - x_padding, East + x_padding)
    /\ ylim' = set_lim(South - y_padding, North + y_padding)
    /\ UNCHANGED <<env, names, x_ticks, y_ticks, axis, scalebar, layers, fs,
                   ending>>

\* Line 50: add_basemap draws the tiles and restores the extent it found.
AddBasemap ==
    /\ Advance("basemap")
    /\ layers' = Append(layers, "basemap")
    /\ UNCHANGED <<env, names, xlim, ylim, x_ticks, y_ticks, axis, scalebar,
                   fs, ending>>

\* Lines 53-70.
Ticks ==
    /\ Advance("ticks")
    /\ x_ticks' = linspace(West - x_padding, East + x_padding, NumTicks)
    /\ y_ticks' = linspace(South - y_padding, North + y_padding, NumTicks)
    /\ axis' = [xticks  |-> x_ticks',
                yticks  |-> y_ticks',
                xlabels |-> [i \in 1..Len(x_ticks') |->
                               lon_label(x_ticks'[i], South)],
                ylabels |-> [i \in 1..Len(y_ticks') |->
                               lat_label(West, y_ticks'[i])]]
    /\ UNCHANGED <<env, names, xlim, ylim, scalebar, layers, fs, ending>>

\* Line 73.
Grid ==
    /\ Advance("grid")
    /\ layers' = Append(layers, "grid")
    /\ UNCHANGED <<env, names, xlim, ylim, x_ticks, y_ticks, axis, scalebar,
                   fs, ending>>

\* Lines 76-78.
Legend ==
    /\ Advance("legend")
    /\ layers' = Append(layers, "legend")
    /\ UNCHANGED <<env, names, xlim, ylim, x_ticks, y_ticks, axis, scalebar,
                   fs, ending>>

\* Lines 81-100: plotting on axes whose limits were set does not rescale them.
ScaleBar ==
    /\ Advance("scalebar")
    /\ scalebar' = ScaleBarArtists
    /\ layers' = Append(layers, "scalebar")
    /\ UNCHANGED <<env, names, xlim, ylim, x_ticks, y_ticks, axis, fs, ending>>

\* Lines 103-107.
NorthArrow ==
    /\ Advance("arrow")
    /\ layers' = Append(layers, "arrow")
    /\ UNCHANGED <<env, names, xlim, ylim, x_ticks, y_ticks, axis, scalebar,
                   fs, ending>>

\* Lines 110-112.
TitleLabels ==
    /\ Advance("title")
    /\ layers' = Append(layers, "labels")
    /\ UNCHANGED <<env, names, xlim, ylim, x_ticks, y_ticks, axis, scalebar,
                   fs, ending>>

\* Line 115.
Makedirs ==
    /\ makedirs("makedirs", OutputDir)
    /\ UNCHANGED <<env, names, figure>>

\* A variant that never overwrites: an existing file makes it pick a new name.
Savefig_Numbered ==
    /\ Advance("savefig")
    /\ OutputDir \in dirs
    /\ LET path == OutputPath(OutputDir, shapefile_name)
           free == IF path \in files THEN path \o <<"1">> ELSE path
       IN  /\ files' = files \cup {free}
           /\ written' = written \cup {free}
    /\ UNCHANGED <<env, names, figure, dirs, created, filesAtStart, ending>>

\* Lines 118-120: the file is created or truncated and written.
Savefig ==
    /\ Advance("savefig")
    /\ OutputDir \in dirs
    /\ files' = files \cup {OutputPath(OutputDir, shapefile_name)}
    /\ written' = written \cup {OutputPath(OutputDir, shapefile_name)}
    /\ UNCHANGED <<env, names, figure, dirs, created, filesAtStart, ending>>

\* Line 122.
Show ==
    /\ Advance("show")
    /\ UNCHANGED <<env, names, figure, fs, ending>>

\* A variant that reports every ended run as a failure.
Finish_Status1 ==
    /\ pc = "end"
    /\ pc' = "exited"
    /\ exitCode' = <<1>>
    /\ outcome' = "ok"
    /\ UNCHANGED <<env, names, figure, trace, fs, faultAt>>

\* The script runs off its end: status 0.
Finish ==
    /\ pc = "end"
    /\ pc' = "exited"
    /\ exitCode' = <<0>>
    /\ outcome' = "ok"
    /\ UNCHANGED <<env, names, figure, trace, fs, faultAt>>

\* A variant in which the failure is caught and the script carries on.
Fault_Swallowed ==
    /\ pc \in Fallible \ {"show"}
    /\ pc' = NextPc(pc)
    /\ trace' = Append(trace, pc)
    /\ faultAt' = <<pc>>
    /\ UNCHANGED <<env, names, figure, fs, exitCode, outcome>>

\* A call raises; nothing catches it, and the interpreter ends with status 1.
\* (Creating a directory can fail; finding it already there cannot.)
Fault ==
    /\ pc \in Fallible
    /\ pc \in {"main_makedirs", "makedirs"} => OutputDir \notin dirs
    /\ pc' = "exited"
    /\ trace' = Append(trace, pc)
    /\ exitCode' = <<1>>
    /\ outcome' = "fault"
    /\ faultAt' = <<pc>>
    /\ UNCHANGED <<env, names, figure, fs>>

\* savefig raises: the file may have been created already.
SavefigFault ==
    /\ pc = "savefig"
    /\ pc' = "exited"
    /\ trace' = Append(trace, pc)
    /\ exitCode' = <<1>>
    /\ outcome' = "fault"
    /\ faultAt' = <<pc>>
    /\ \E partial \in BOOLEAN :
         /\ files' = IF partial /\ OutputDir \in dirs
                     THEN files \cup {OutputPath(OutputDir, shapefile_name)}
                     ELSE files
         /\ written' = written \cup (files' \ files)
    /\ UNCHANGED <<env, names, figure, dirs, created, filesAtStart>>

\* The program is run again, on the same input and the file system as it is.
Rerun ==
    /\ pc = "exited"
    /\ filesAtStart' = files
    /\ pc' = "input"
    /\ shapefile_path' = None
    /\ shapefile_name' = None
    /\ map_title' = None
    /\ xlim' = None
    /\ ylim' = None
    /\ x_ticks' = None
    /\ y_ticks' = None
    /\ axis' = None
    /\ scalebar' = None
    /\ layers' = <<>>
    /\ trace' = <<>>
    /\ created' = {}
    /\ written' = {}
    /\ exitCode' = None
    /\ outcome' = "running"
    /\ faultAt' = None
    /\ UNCHANGED <<env, dirs, files>>

Next ==
    \/ Input
    \/ CheckExists
    \/ MainMakedirs
    \/ ReadFile
    \/ ComputeNames
    \/ Reproject
    \/ Subplots
    \/ Plot
    \/ SetLimits
    \/ AddBasemap
    \/ Ticks
    \/ Grid
    \/ Legend
    \/ ScaleBar
    \/ NorthArrow
    \/ TitleLabels
    \/ Makedirs
    \/ Savefig
    \/ Show
    \/ Finish
    \/ Fault
    \/ SavefigFault
    \/ Rerun

Spec == Init /\ [][Next]_vars

SpecLayout == InitLayout /\ [][Next]_vars

-----------------------------------------------------------------------------
(* Vocabulary of the properties *)

Range(f) == {f[i] : i \in DOMAIN f}

\* The statement has run to completion in this run.
Completed(step) == step \in Range(trace) /\ faultAt # <<step>>

\* The base name of a path: what follows its last separator.
BaseNameOf(p) ==
    CHOOSE b \in {SubSeq(p, k, Len(p)) : k \in 1..(Len(p) + 1)} :
        /\ "/" \notin Range(b)
        /\ Len(b) = Len(p) \/ p[Len(p) - Len(b)] = "/"

\* A name with its last extension removed.  An extension starts at the
\* name's last dot; a name whose last dot is preceded by dots only (a dot
\* file) has no extension.
StemOf(b) ==
    LET D == {k \in 1..Len(b) :
                /\ b[k] = "."
                /\ \A j \in (k + 1)..Len(b) : b[j] # "."
                /\ \E i \in 1..(k - 1) : b[i] # "."}
    IN  IF D = {} THEN b ELSE SubSeq(b, 1, (CHOOSE k \in D : TRUE) - 1)

ExpectedOutputOf(p) == OutputDir \o <<"/">> \o StemOf(BaseNameOf(p)) \o Suffix

\* For the path create_base_map was called with in this run.
ExpectedOutput == ExpectedOutputOf(shapefile_path)

\* The path the typed line denotes, the same in every run.
InputPath == strip(strip(entered, Whitespace), Quotes)

-----------------------------------------------------------------------------
(* Properties *)

\* C1: a run on an existing input path that completes without a fault has
\* written exactly one file, <output_dir>/<B>_basemap.png, where B is the
\* path's base name without its last extension, underscores kept.
C1_OneOutputFile ==
    outcome = "ok" =>
        /\ written = {ExpectedOutput}
        /\ files \ filesAtStart \subseteq written
        /\ \A i \in 1..Len(shapefile_name) :
             shapefile_name[i] = BaseNameOf(shapefile_path)[i]

C1_Witness ==
    /\ outcome = "ok"
    /\ "_" \in Range(shapefile_name)
    /\ Len(shapefile_name) < Len(BaseNameOf(shapefile_path))

\* C2: when the cleaned path does not exist the process ends with status 1
\* and the run has created no directory, written no file, read no geometry
\* and fetched no tile.
C2_MissingInput ==
    (/\ pc \notin {"input", "exists"}
     /\ faultAt # <<"input">>
     /\ ~exists(shapefile_path))
    => /\ pc = "exited"
       /\ exitCode = <<1>>
       /\ trace = <<"input", "exists">>
       /\ created = {}
       /\ written = {}
       /\ files = filesAtStart
       /\ layers = <<>>

C2_Witness ==
    /\ outcome = "not_found"
    /\ shapefile_path # entered
    /\ shapefile_path # <<>>
\* The humanized name as the claim words it: underscores become spaces, the
\* first character of each space-separated word is upper-cased and the rest
\* of the word is kept.
WordsCapitalized(name) ==
    LET r == [i \in 1..Len(name) |-> IF name[i] = "_" THEN " " ELSE name[i]]
    IN  [i \in 1..Len(r) |->
            IF i = 1 \/ r[i - 1] = " " THEN upper(r[i]) ELSE r[i]]

\* The humanized name in title case: underscores become spaces; a letter is
\* upper-cased when no letter precedes it directly and lower-cased otherwise.
TitleCased(name) ==
    LET r == [i \in 1..Len(name) |-> IF name[i] = "_" THEN " " ELSE name[i]]
        Letter(c) == c \in Lower \cup Upper
    IN  [i \in 1..Len(r) |->
            IF ~Letter(r[i]) THEN r[i]
            ELSE IF i > 1 /\ Letter(r[i - 1]) THEN lower(r[i])
            ELSE upper(r[i])]

\* C5 as stated: the title is the base name without extension, underscores
\* replaced by spaces, the first letter of each space-separated word
\* upper-cased and the word otherwise as in the file name.
C5_AsStated ==
    Completed("names") =>
        map_title = WordsCapitalized(StemOf(BaseNameOf(shapefile_path)))

\* C5 amended: the title is the base name without extension, underscores
\* replaced by spaces, in title case: every run of letters starts with an
\* upper-case letter and continues in lower case, and any non-letter (not
\* only a space) ends a run.
C5_Title ==
    Completed("names") =>
        map_title = TitleCased(StemOf(BaseNameOf(shapefile_path)))

C5_Witness ==
    /\ Completed("title")
    /\ map_title # WordsCapitalized(shapefile_name)
    /\ \E i \in 1..Len(shapefile_name) : shapefile_name[i] = "B" /\ map_title[i] = "b"

\* C6: however often the program is run on the same input and output
\* directory, the only file it ever leaves is <basename>_basemap.png, a
\* successful run leaves exactly that one file (overwriting an earlier one),
\* and finding the output directory already there is never an error.
C6_Rerun ==
    /\ files \subseteq {ExpectedOutputOf(InputPath)}
    /\ outcome = "ok" => files = {ExpectedOutputOf(InputPath)} /\ written = files
    /\ \A step \in {"main_makedirs", "makedirs"} :
         faultAt = <<step>> => OutputDir \notin dirs

C6_Witness ==
    /\ outcome = "ok"
    /\ ExpectedOutput \in filesAtStart
    /\ created = {}

\* The steps the ordering claims speak of, numbered in their stated order.
Rank(step) ==
    CASE step = "read_file" -> 1
      [] step = "reproject" -> 2
      [] step = "plot"      -> 3
      [] step = "limits"    -> 4
      [] step = "basemap"   -> 5
      [] step = "ticks"     -> 6
      [] step = "grid"      -> 6
      [] step = "legend"    -> 7
      [] step = "scalebar"  -> 8
      [] step = "arrow"     -> 9
      [] step = "title"     -> 10
      [] step = "makedirs"  -> 11
      [] step = "savefig"   -> 12
      [] step = "show"      -> 13
      [] OTHER              -> 0

Times(step) == Cardinality({i \in 1..Len(trace) : trace[i] = step})

\* C7: when the geometry load, the reprojection or the tile fetch raises, the
\* run is over: the failing call was attempted exactly once and is the last
\* thing the run did, and the run has written no file.
C7_AbortOnFault ==
    \A step \in {"read_file", "reproject", "basemap"} :
        faultAt = <<step>> =>
            /\ pc = "exited"
            /\ exitCode = <<1>>
            /\ Times(step) = 1
            /\ trace[Len(trace)] = step
            /\ \A i \in 1..Len(trace) : Rank(trace[i]) <= Rank(step)
            /\ written = {}
            /\ files = filesAtStart

C7_Witness ==
    /\ faultAt = <<"basemap">>
    /\ Completed("limits")
    /\ filesAtStart # {}

\* C8 as stated: the process ends with status 1 if and only if the entered
\* path does not exist.
C8_AsStated ==
    pc = "exited" =>
        /\ exitCode = <<1>> <=> ~exists(shapefile_path)
        /\ (exists(shapefile_path) /\ Completed("show")) =>
             exitCode = <<0>> /\ ExpectedOutput \in written

\* C8 amended: the process ends with status 1 when the entered path does not
\* exist and also when a call raises; it ends with status 0 exactly when the
\* pipeline has run to its end, and then the PNG has been written.
C8_ExitStatus ==
    pc = "exited" =>
        /\ exitCode \in {<<0>>, <<1>>}
        /\ (Completed("exists") /\ ~exists(shapefile_path)) => exitCode = <<1>>
        /\ faultAt # <<>> => exitCode = <<1>>
        /\ exitCode = <<1>> =>
             (Completed("exists") /\ ~exists(shapefile_path)) \/ faultAt # <<>>
        /\ exitCode = <<0>> <=> Completed("show")
        /\ exitCode = <<0>> => ExpectedOutput \in written

C8_Witness ==
    /\ pc = "exited"
    /\ exitCode = <<1>>
    /\ exists(shapefile_path)
    /\ faultAt = <<"read_file">>

\* C9: the steps of a run happen in the stated order, each at most once; the
\* output directory is ensured before the PNG write is attempted, the write
\* comes after every layer has been drawn, and the display never precedes
\* the write.
C9_StepOrder ==
    /\ \A i, j \in 1..Len(trace) :
         i < j => /\ trace[i] # trace[j]
                  /\ Rank(trace[j]) > 0 => Rank(trace[i]) <= Rank(trace[j])
    /\ "savefig" \in Range(trace) =>
         /\ Completed("makedirs")
         /\ OutputDir \in dirs
         /\ layers = <<"polygon", "basemap", "grid", "legend", "scalebar",
                       "arrow", "labels">>
         /\ axis # None
    /\ "show" \in Range(trace) => Completed("savefig")

C9_Witness ==
    /\ outcome = "ok"
    /\ Len(trace) = 19
    /\ trace[Len(trace)] = "show"
\* The claimed limits of an axis whose bounds are lo and hi:
\* [lo - 0.2 * (hi - lo), hi + 0.2 * (hi - lo)].
PaddedLimits(lim, lo, hi) ==
    /\ Len(lim) = 2
    /\ 5 * lim[1] = 5 * lo - (hi - lo)
    /\ 5 * lim[2] = 5 * hi + (hi - lo)

\* C3 as stated: for every bounding box, a degenerate one included, the
\* axis limits are the bounds padded by 0.2 of the axis's own range.
C3_AsStated ==
    Completed("limits") =>
        /\ PaddedLimits(xlim, West, East)
        /\ PaddedLimits(ylim, South, North)

\* C3 amended: on every axis whose range is not zero the limits are the
\* bounds padded by 0.2 of that axis's own range, whatever the other axis
\* is; an axis of zero range gets a widened interval around its value, not
\* the identical limits; and no later step of the run changes the limits.
C3_Limits ==
    /\ [](Completed("limits") =>
            /\ East > West => PaddedLimits(xlim, West, East)
            /\ North > South => PaddedLimits(ylim, South, North)
            /\ East = West => xlim[1] < xlim[2] /\ xlim[1] <= West /\ West <= xlim[2]
            /\ North = South => ylim[1] < ylim[2] /\ ylim[1] <= South /\ South <= ylim[2])
    /\ [][Completed("limits") /\ pc # "exited" => xlim' = xlim /\ ylim' = ylim]_vars

C3_Witness ==
    /\ outcome = "ok"
    /\ East = West
    /\ North > South
    /\ PaddedLimits(ylim, South, North)
    /\ ~PaddedLimits(xlim, West, East)

\* Six ticks from the padded lower limit lo - 0.2 * (hi - lo) to the padded
\* upper limit hi + 0.2 * (hi - lo), a fifth of the padded range apart.
EvenTicks(t, lo, hi) ==
    /\ Len(t) = 6
    /\ 5 * t[1] = 5 * lo - (hi - lo)
    /\ 5 * t[6] = 5 * hi + (hi - lo)
    /\ \A i \in 1..5 : 25 * (t[i + 1] - t[i]) = 7 * (hi - lo)

\* C4: each axis gets exactly 6 ticks, the first on the padded lower limit,
\* the last on the padded upper limit, consecutive ticks one fifth of the
\* padded range apart; the positions installed on the axes are these metric
\* values and only the label text is the conversion to degrees.
C4_Ticks ==
    Completed("ticks") =>
        /\ EvenTicks(x_ticks, West, East)
        /\ EvenTicks(y_ticks, South, North)
        /\ axis.xticks = x_ticks
        /\ axis.yticks = y_ticks
        /\ \A i \in 1..6 : /\ axis.xlabels[i] = lon_label(x_ticks[i], South)
                           /\ axis.ylabels[i] = lat_label(West, y_ticks[i])

C4_Witness ==
    /\ Completed("ticks")
    /\ East > West
    /\ North > South
    /\ East - West # North - South

\* A point lies within the padded limits,
\* [west - 0.2 * x_range, east + 0.2 * x_range] by
\* [south - 0.2 * y_range, north + 0.2 * y_range].
Inside(x, y) ==
    /\ 5 * West - (East - West) <= 5 * x
    /\ 5 * x <= 5 * East + (East - West)
    /\ 5 * South - (North - South) <= 5 * y
    /\ 5 * y <= 5 * North + (North - South)

\* The placement of the bar: 15000 long, its right end 5000 left of the
\* upper x limit, 0.05 of the y range above the lower y limit, the caps 300
\* above and below, the label anchored at the bar's midpoint.
BarPlaced ==
    LET b == scalebar.bar
    IN  /\ b[2] = b[4]
        /\ b[3] - b[1] = 15000 * Unit
        /\ b[3] = East + x_padding - 5000 * Unit
        /\ 20 * (b[2] - (South - y_padding)) = North - South
        /\ 2 * scalebar.text[1] = b[1] + b[3]
        /\ scalebar.cap1 = <<b[1], b[2] - 300 * Unit, b[1], b[2] + 300 * Unit>>
        /\ scalebar.cap2 = <<b[3], b[2] - 300 * Unit, b[3], b[2] + 300 * Unit>>

BarInside ==
    /\ Inside(scalebar.bar[1], scalebar.bar[2])
    /\ Inside(scalebar.bar[3], scalebar.bar[4])
    /\ Inside(scalebar.text[1], scalebar.text[2])
    /\ Inside(scalebar.cap1[1], scalebar.cap1[2])
    /\ Inside(scalebar.cap1[3], scalebar.cap1[4])
    /\ Inside(scalebar.cap2[1], scalebar.cap2[2])
    /\ Inside(scalebar.cap2[3], scalebar.cap2[4])

====
